---------------------------- MODULE Spec2Model ----------------------------
(***************************************************************************)
(* Model of RedmineAPI.py: the RedmineInterface client.                    *)
(*                                                                         *)
(* The client is single threaded.  Every public method is modelled as a    *)
(* sequence of steps (pc), one step per transport call, per sleep and per  *)
(* evaluation of a loop condition.  The transport is the environment: each *)
(* call is answered with any status of Statuses and any body of Bodies.    *)
(*                                                                         *)
(* Strings that the code takes apart (the base url, the file path) are     *)
(* sequences of atoms: a separator ("/", ":", "@") or a run of other       *)
(* characters.  None is the empty sequence, a supplied optional argument   *)
(* v is <<v>>.                                                             *)
(***************************************************************************)
EXTENDS Integers, Sequences, FiniteSets, TLC

\* ---------------------------------------------------------------- bounds
\* number of public operations one client performs in a behaviour
MaxOps == 2

\* ------------------------------------------------------- program constants
\* `tries < 10` / `tries >= 10` in the three retry loops
MaxRetries == 10
\* default of wait_between_retry_attempts in __init__
DefaultWait == 60

\* ------------------------------------------------------------ input domains
\* status codes the simulated transport may answer a GET or a PUT with
Statuses == {200, 201, 401, 500}
\* status codes the uploads endpoint may answer the staging POST with
UploadStatuses == Statuses \cup {422}
\* response bodies the simulated transport may answer with
Bodies == {"doc1", "doc2"}
\* values of wait_between_retry_attempts given to the constructor
WaitChoices == {5, DefaultWait}
\* urls given to the constructor
Urls == { <<"http", ":", "/", "/", "redmine.example", "/">>,
          <<"http", ":", "/", "/", ":", "80", "/">>,
          <<"http", ":", "/", "/">>,
          <<"http", ":", "/", "redmine.example">>,
          <<"/", "/", "redmine.example", "/">>,
          <<"redmine.example", "/">>,
          <<>> }
ApiKeys == {"key1"}
IssueIds == {42, 105}
\* (notes, status_change, assign_to_id) arguments of update_issue
UpdateArgs == { << <<>>,       <<>>,  <<>>  >>,
                << <<"done">>, <<>>,  <<>>  >>,
                << <<"">>,     <<4>>, <<>>  >>,
                << <<>>,       <<>>,  <<7>> >>,
                << <<"done">>, <<4>>, <<7>> >> }
\* (issue_id, notes, status_change) arguments of assign_to_author
AssignArgs == { << 42,  <<>>,       <<>>  >>,
                << 105, <<"done">>, <<4>> >> }
\* (filepath, file_name_once_uploaded, additional_notes, status_change)
\* arguments of upload_file
UploadArgs == { << <<"report.pdf">>,                            <<>>, <<"">>,     <<>>  >>,
                << <<"home", "/", "out", "/", "report.pdf">>,   <<>>, <<"done">>, <<4>> >>,
                << <<"home", "/", "report.pdf">>, <<"summary.pdf">>,  <<"">>,     <<>>  >> }
ContentTypes == {"application/pdf"}

\* json.loads(resp.content.decode("utf-8")): the document a body stands for
JsonLoads(b) ==
    IF b = "doc1"
    THEN [issue  |-> [author |-> [id |-> 7]],  upload |-> [token |-> "abc123"]]
    ELSE [issue  |-> [author |-> [id |-> 12]], upload |-> [token |-> "def456"]]

Tokens == {JsonLoads(b).upload.token : b \in Bodies}

NoReturn == [kind |-> "none", status |-> 0]
NoError  == [msg |-> "", status |-> 0, body |-> ""]
NoArgs   == [issue_id |-> 0, notes |-> <<>>, status_change |-> <<>>, assign_to_id |-> <<>>,
             filepath |-> <<>>, file_name |-> <<>>, content_type |-> ""]
NoTarget == [endpoint |-> "", id |-> ""]

VARIABLES
    pc,        \* position of the client in the running method
    op,        \* the public method in progress ("none" when idle)
    url,       \* self.url
    api_key,   \* self.api_key
    wait,      \* self.wait
    wait0,     \* history: wait_between_retry_attempts given to __init__
    url0,      \* history: url given to __init__
    exec,      \* history: the retry loop in progress: none, get, put, download
    tries,     \* local `tries` of the retry loop
    resp,      \* status_code of local `resp` (0: no response yet)
    earlier,   \* history: statuses of the responses of this loop before resp
    gets,      \* history: requests.get calls of this operation
    puts,      \* history: requests.put calls of this operation
    posts,     \* history: requests.post calls of this operation
    postResp,  \* status_code of `resp` in upload_file (0: no response yet)
    token,     \* local `token` of upload_file
    sleeps,    \* history: durations of the time.sleep calls of this loop
    outcome,   \* how the operation ended: none, success, auth, exhausted, upload_error
    ret,       \* value returned by the retry loop
    nops,      \* operations started so far
    args,      \* arguments of the method in progress (of update_issue once it is called)
    target,    \* local `url` of the request in progress
    data,      \* local `data`: the json body of the PUT (<<>>: none)
    author,    \* get_issue_data(issue_id)['issue']['author']['id'] in assign_to_author
    content,   \* resp.content of local `resp`
    postContent, \* resp.content of `resp` in upload_file
    err,       \* what the raised exception carries
    last,      \* history: the response the transport gave last
    sent,      \* history: url and json of the PUT requests of this operation
    fetched,   \* history: body of the response get_issue_data returned
    putEntered \* history: __put_request_timeout was entered by this client

vars == <<pc, op, url, api_key, wait, wait0, url0, exec, tries, resp, earlier,
          gets, puts, posts, postResp, token, sleeps, outcome, ret, nops,
          args, target, data, author, content, postContent, err, last, sent,
          fetched, putEntered>>

config == <<url, api_key, wait0, url0>>
loopv  == <<exec, tries, resp, earlier, sleeps>>
countv == <<gets, puts, posts>>
uplv   == <<postResp, token, postContent>>
reqv   == <<args, target, data, author, fetched>>
bodyv  == <<content, last>>

\* transport calls made by the retry loop in progress
calls == IF exec = "put" THEN puts ELSE IF exec = "none" THEN 0 ELSE gets

\* ------------------------------------------------------------ conversions
\* position of the first atom c in s, 0 when there is none
FirstIndex(s, c) ==
    IF \E i \in 1..Len(s) : s[i] = c
    THEN CHOOSE i \in 1..Len(s) : s[i] = c /\ \A j \in 1..(i - 1) : s[j] # c
    ELSE 0

\* position of the last atom c in s, 0 when there is none
LastIndex(s, c) ==
    IF \E i \in 1..Len(s) : s[i] = c
    THEN CHOOSE i \in 1..Len(s) : s[i] = c /\ \A j \in (i + 1)..Len(s) : s[j] # c
    ELSE 0

Digits == <<"0", "1", "2", "3", "4", "5", "6", "7", "8", "9">>

\* str(n) for a natural number n
RECURSIVE str(_)
\* mutant: the leading digits are lost
str_m(n) == Digits[(n % 10) + 1]
str(n) == IF n < 10 THEN Digits[n + 1] ELSE str(n \div 10) \o Digits[(n % 10) + 1]

\* parse.urlparse(str(url)): the scheme is what precedes the first ":" when
\* it is non-empty and holds no separator; the netloc is what follows a
\* leading "//" of the rest, up to the next "/"
urlparse(u) ==
    LET i         == FirstIndex(u, ":")
        hasScheme == i > 1 /\ \A j \in 1..(i - 1) : u[j] \notin {"/", "@"}
        rest      == IF hasScheme THEN SubSeq(u, i + 1, Len(u)) ELSE u
        hasNet    == Len(rest) >= 2 /\ rest[1] = "/" /\ rest[2] = "/"
        after     == SubSeq(rest, 3, Len(rest))
        d         == FirstIndex(after, "/")
    IN  [scheme |-> IF hasScheme THEN SubSeq(u, 1, i - 1) ELSE <<>>,
         netloc |-> IF ~hasNet THEN <<>>
                    ELSE IF d = 0 THEN after ELSE SubSeq(after, 1, d - 1)]

\* os.path.split(filepath)[-1]: what follows the last "/"
basename(p) == SubSeq(p, LastIndex(p, "/") + 1, Len(p))

\* urljoin(self.url, 'issues/%s.json' % str(issue_id))
IssueUrl(id) == [endpoint |-> "issues", id |-> str(id)]

\* ------------------------------------------------------------ construction
\* mutant: the netloc is not looked at
url_validator_m(u) == urlparse(u).scheme # <<>>
\* __url_validator: both scheme and netloc are non-empty
url_validator(u) == urlparse(u).scheme # <<>> /\ urlparse(u).netloc # <<>>

Init ==
    /\ pc = "new" /\ op = "none"
    /\ url = <<>> /\ api_key = "" /\ wait = 0 /\ wait0 = 0 /\ url0 = <<>>
    /\ exec = "none" /\ tries = 0 /\ resp = 0 /\ earlier = {}
    /\ gets = 0 /\ puts = 0 /\ posts = 0 /\ postResp = 0 /\ token = ""
    /\ sleeps = <<>> /\ outcome = "none" /\ ret = NoReturn /\ nops = 0
    /\ args = NoArgs /\ target = NoTarget /\ data = <<>> /\ author = 0
    /\ content = "" /\ postContent = "" /\ err = NoError
    /\ last = [status |-> 0, body |-> ""] /\ sent = {} /\ fetched = ""
    /\ putEntered = FALSE

\* __init__(url, api_key, wait_between_retry_attempts)
init ==
    /\ pc = "new"
    /\ \E u \in Urls, k \in ApiKeys, w \in WaitChoices :
         /\ url0' = u
         /\ IF url_validator(u)
            THEN /\ url' = u /\ wait' = w /\ api_key' = k /\ wait0' = w
                 /\ pc' = "idle"
                 /\ UNCHANGED <<outcome, err>>
            ELSE /\ pc' = "invalid" /\ outcome' = "invalid_url"
                 /\ err' = [msg |-> "Invalid URL", status |-> 0, body |-> ""]
                 /\ UNCHANGED <<url, wait, api_key, wait0>>
    /\ UNCHANGED <<op, loopv, countv, uplv, ret, nops, reqv, bodyv, sent, putEntered>>

\* ------------------------------------------------- start of the operations
\* a public method is entered: its locals and the history start afresh
Begin(name, first, loop, a, t, d) ==
    /\ op' = name /\ pc' = first /\ exec' = loop
    /\ nops' = nops + 1
    /\ args' = a /\ target' = t /\ data' = d
    /\ UNCHANGED <<config, wait, tries, resp, earlier, sleeps, countv, uplv, outcome, ret,
                   author, fetched, bodyv, err, sent, putEntered>>

\* mutant: an empty or zero argument is taken for a missing one
UpdateData_m(status_change, assign_to_id, notes) ==
    LET keys == (IF status_change # <<>> THEN {"status_id"} ELSE {})
                \cup (IF assign_to_id # <<>> THEN {"assigned_to_id"} ELSE {})
                \cup (IF notes # <<>> /\ notes # <<"">> THEN {"notes"} ELSE {})
    IN  [issue |-> [k \in keys |->
            CASE k = "status_id"      -> status_change[1]
              [] k = "assigned_to_id" -> str(assign_to_id[1])
              [] k = "notes"          -> notes[1]]]
\* update_issue: data = {"issue": {}} and one key per argument that is not None
UpdateData(status_change, assign_to_id, notes) ==
    LET keys == (IF status_change # <<>> THEN {"status_id"} ELSE {})
                \cup (IF assign_to_id # <<>> THEN {"assigned_to_id"} ELSE {})
                \cup (IF notes # <<>> THEN {"notes"} ELSE {})
    IN  [issue |-> [k \in keys |->
            CASE k = "status_id"      -> status_change[1]
              [] k = "assigned_to_id" -> str(assign_to_id[1])
              [] k = "notes"          -> notes[1]]]

\* get_new_issues: return self.__get_request_timeout(url)
get_new_issues ==
    /\ pc = "idle" /\ nops < MaxOps
    /\ Begin("get_new_issues", "get_first", "get", NoArgs,
             [endpoint |-> "projects", id |-> "cfia"], <<>>)

\* get_issue_data: return self.__get_request_timeout(url)
get_issue_data ==
    /\ pc = "idle" /\ nops < MaxOps
    /\ \E i \in IssueIds :
         Begin("get_issue_data", "get_first", "get",
               [NoArgs EXCEPT !.issue_id = i], IssueUrl(i), <<>>)

\* assign_to_author: the argument get_issue_data(issue_id) is evaluated
\* first, update_issue is called with its result
assign_to_author ==
    /\ pc = "idle" /\ nops < MaxOps
    /\ \E a \in AssignArgs :
         Begin("assign_to_author", "get_first", "get",
               [NoArgs EXCEPT !.issue_id = a[1], !.notes = a[2], !.status_change = a[3]],
               IssueUrl(a[1]), <<>>)

\* update_issue: self.__put_request_timeout(url, data)
update_issue ==
    /\ pc = "idle" /\ nops < MaxOps
    /\ \E i \in {42}, a \in UpdateArgs :
         Begin("update_issue", "put_first", "put",
               [NoArgs EXCEPT !.issue_id = i, !.notes = a[1], !.status_change = a[2],
                              !.assign_to_id = a[3]],
               IssueUrl(i), UpdateData(a[2], a[3], a[1]))

\* download_file: its own copy of the GET retry loop
download_file ==
    /\ pc = "idle" /\ nops < MaxOps
    /\ Begin("download_file", "dl_first", "download", NoArgs,
             [endpoint |-> "content", id |-> "file"], <<>>)

\* upload_file: the staging POST comes first
upload_file ==
    /\ pc = "idle" /\ nops < MaxOps
    /\ \E i \in {42}, a \in UploadArgs, c \in ContentTypes :
         Begin("upload_file", "upload_post", "none",
               [NoArgs EXCEPT !.issue_id = i, !.filepath = a[1], !.file_name = a[2],
                              !.content_type = c, !.notes = a[3], !.status_change = a[4]],
               [endpoint |-> "uploads", id |-> ""], <<>>)

\* the operation returned or raised: the client is ready for the next one
Return ==
    /\ pc = "done"
    /\ pc' = "idle" /\ op' = "none" /\ exec' = "none"
    /\ tries' = 0 /\ resp' = 0 /\ earlier' = {} /\ sleeps' = <<>>
    /\ gets' = 0 /\ puts' = 0 /\ posts' = 0 /\ postResp' = 0 /\ token' = ""
    /\ outcome' = "none" /\ ret' = NoReturn
    /\ args' = NoArgs /\ target' = NoTarget /\ data' = <<>> /\ author' = 0
    /\ content' = "" /\ postContent' = "" /\ err' = NoError
    /\ last' = [status |-> 0, body |-> ""] /\ sent' = {} /\ fetched' = ""
    /\ UNCHANGED <<config, wait, nops, putEntered>>

Raise(kind, e) ==
    /\ pc' = "done" /\ outcome' = kind /\ ret' = NoReturn /\ err' = e

\* RedmineConnectionError("Invalid Redmine api key")
AuthError == [msg |-> "Invalid Redmine api key", status |-> 0, body |-> ""]
\* RedmineConnectionError("Could not connect to redmine servers. Status code %d, message:\n%s")
ConnectionError(status, body) ==
    [msg |-> "Could not connect to redmine servers", status |-> status, body |-> body]
\* RedmineUploadError("Failed to upload file to Redmine. Status code %s, Message %s")
UploadError(status, body) ==
    [msg |-> "Failed to upload file to Redmine", status |-> status, body |-> body]

\* the transport answers a request
Respond(s, b) ==
    /\ resp' = s /\ content' = b /\ last' = [status |-> s, body |-> b]

\* ------------------------------------------------- __get_request_timeout
\* mutant: the loop allows one retry more
GetContinue_m(status, t) == status # 200 /\ t <= MaxRetries
\* while resp.status_code != 200 and tries < 10
GetContinue(status, t) == status # 200 /\ t < MaxRetries
\* mutant: the 401 check is missing
GetUnauthorized_m(status) == FALSE
\* if resp.status_code == 401
GetUnauthorized(status) == status = 401
\* if tries >= 10
GetExhausted(t) == t >= MaxRetries

\* resp = requests.get(url, headers=headers); tries = 0
GetFirst ==
    /\ pc = "get_first"
    /\ \E s \in Statuses, b \in Bodies : Respond(s, b)
    /\ tries' = 0 /\ gets' = gets + 1
    /\ pc' = "get_test"
    /\ UNCHANGED <<op, config, wait, exec, earlier, sleeps, puts, posts, uplv, outcome, ret,
                   nops, reqv, err, sent, putEntered>>

\* the loop condition, the 401 check inside the loop, and the code after the
\* loop; in assign_to_author the returned document goes on to update_issue
GetTest ==
    /\ pc = "get_test"
    /\ IF GetContinue(resp, tries)
       THEN IF GetUnauthorized(resp)
            THEN Raise("auth", AuthError) /\ UNCHANGED <<exec, puts, reqv>>
            ELSE pc' = "get_sleep" /\ UNCHANGED <<outcome, ret, err, exec, puts, reqv>>
       ELSE IF GetExhausted(tries)
            THEN Raise("exhausted", ConnectionError(resp, content))
                 /\ UNCHANGED <<exec, puts, reqv>>
            ELSE IF op = "assign_to_author"
                 THEN /\ pc' = "put_first" /\ exec' = "put"
                      /\ ret' = [kind |-> "json", status |-> resp]
                      /\ fetched' = content
                      /\ author' = JsonLoads(content).issue.author.id
                      /\ args' = [args EXCEPT !.assign_to_id = <<author'>>]
                      /\ target' = IssueUrl(args.issue_id)
                      /\ data' = UpdateData(args.status_change, <<author'>>, args.notes)
                      /\ UNCHANGED <<outcome, err, puts>>
                 ELSE /\ pc' = "done" /\ outcome' = "success"
                      /\ ret' = [kind |-> "json", status |-> resp]
                      /\ fetched' = content
                      /\ UNCHANGED <<exec, puts, err, args, target, data, author>>
    /\ IF pc' = "put_first"
       THEN tries' = 0 /\ resp' = 0 /\ earlier' = {} /\ sleeps' = <<>> /\ content' = ""
       ELSE UNCHANGED <<tries, resp, earlier, sleeps, content>>
    /\ UNCHANGED <<op, config, wait, gets, posts, uplv, nops, last, sent, putEntered>>

\* time.sleep(self.wait)
GetSleep ==
    /\ pc = "get_sleep"
    /\ sleeps' = Append(sleeps, wait)
    /\ pc' = "get_retry"
    /\ UNCHANGED <<op, config, wait, exec, tries, resp, earlier, countv, uplv, outcome, ret,
                   nops, reqv, bodyv, err, sent, putEntered>>

\* resp = requests.get(url, headers=headers); tries += 1
GetRetry ==
    /\ pc = "get_retry"
    /\ \E s \in Statuses, b \in Bodies : Respond(s, b)
    /\ earlier' = earlier \cup {resp}
    /\ tries' = tries + 1 /\ gets' = gets + 1
    /\ pc' = "get_test"
    /\ UNCHANGED <<op, config, wait, exec, sleeps, puts, posts, uplv, outcome, ret,
                   nops, reqv, err, sent, putEntered>>

\* ------------------------------------------------- __put_request_timeout
\* self.wait = 60
PutWait == 60
\* mutant: the loop allows one retry more
PutContinue_late(status, t) == (status # 200 /\ status # 201) /\ t <= MaxRetries
\* mutant: 401 ends the loop
PutContinue_m(status, t) == (status # 200 /\ status # 201 /\ status # 401) /\ t < MaxRetries
\* while (resp.status_code != 200 and resp.status_code != 201) and tries < 10
PutContinue(status, t) == (status # 200 /\ status # 201) /\ t < MaxRetries
\* mutant: the budget check is off by one
PutExhausted_m(t) == t >= MaxRetries - 1
\* if tries >= 10
PutExhausted(t) == t >= MaxRetries

\* mutant: the delay is not reset
PutFirst_m ==
    /\ pc = "put_first"
    /\ putEntered' = TRUE
    /\ \E s \in Statuses, b \in Bodies : Respond(s, b)
    /\ sent' = sent \cup {[url |-> target, json |-> data]}
    /\ tries' = 0 /\ puts' = puts + 1
    /\ pc' = "put_test"
    /\ UNCHANGED <<op, config, wait, exec, earlier, sleeps, gets, posts, uplv, outcome, ret,
                   nops, reqv, err>>
\* self.wait = 60; resp = requests.put(url, headers=headers, json=data); tries = 0
PutFirst ==
    /\ pc = "put_first"
    /\ wait' = PutWait /\ putEntered' = TRUE
    /\ \E s \in Statuses, b \in Bodies : Respond(s, b)
    /\ sent' = sent \cup {[url |-> target, json |-> data]}
    /\ tries' = 0 /\ puts' = puts + 1
    /\ pc' = "put_test"
    /\ UNCHANGED <<op, config, exec, earlier, sleeps, gets, posts, uplv, outcome, ret,
                   nops, reqv, err>>

PutTest ==
    /\ pc = "put_test"
    /\ IF PutContinue(resp, tries)
       THEN pc' = "put_sleep" /\ UNCHANGED <<outcome, ret, err>>
       ELSE IF PutExhausted(tries)
            THEN Raise("exhausted", ConnectionError(resp, content))
            ELSE /\ pc' = "done" /\ outcome' = "success"
                 /\ ret' = [kind |-> "status", status |-> resp]
                 /\ UNCHANGED err
    /\ UNCHANGED <<op, config, wait, loopv, countv, uplv, nops, reqv, bodyv, sent, putEntered>>

PutSleep ==
    /\ pc = "put_sleep"
    /\ sleeps' = Append(sleeps, wait)
    /\ pc' = "put_retry"
    /\ UNCHANGED <<op, config, wait, exec, tries, resp, earlier, countv, uplv, outcome, ret,
                   nops, reqv, bodyv, err, sent, putEntered>>

\* mutant: the response of the retry is not kept
PutRetry_m ==
    /\ pc = "put_retry"
    /\ \E s \in Statuses, b \in Bodies :
         /\ resp' = s /\ last' = [status |-> s, body |-> b]
         /\ UNCHANGED content
    /\ sent' = sent \cup {[url |-> target, json |-> data]}
    /\ earlier' = earlier \cup {resp}
    /\ tries' = tries + 1 /\ puts' = puts + 1
    /\ pc' = "put_test"
    /\ UNCHANGED <<op, config, wait, exec, sleeps, gets, posts, uplv, outcome, ret,
                   nops, reqv, err, putEntered>>
\* resp = requests.put(url, headers=headers, json=data); tries += 1
PutRetry ==
    /\ pc = "put_retry"
    /\ \E s \in Statuses, b \in Bodies : Respond(s, b)
    /\ sent' = sent \cup {[url |-> target, json |-> data]}
    /\ earlier' = earlier \cup {resp}
    /\ tries' = tries + 1 /\ puts' = puts + 1
    /\ pc' = "put_test"
    /\ UNCHANGED <<op, config, wait, exec, sleeps, gets, posts, uplv, outcome, ret,
                   nops, reqv, err, putEntered>>

\* ---------------------------------------------------------- download_file
\* mutant: the retries are not capped
DownloadContinue_m(status, t) == status # 200
\* while resp.status_code != 200 and tries < 10
DownloadContinue(status, t) == status # 200 /\ t < MaxRetries
\* mutant: the 401 check is missing
DownloadUnauthorized_m(status) == FALSE
\* if resp.status_code == 401
DownloadUnauthorized(status) == status = 401
\* if tries >= 10
DownloadExhausted(t) == t >= MaxRetries

DownloadFirst ==
    /\ pc = "dl_first"
    /\ \E s \in Statuses, b \in Bodies : Respond(s, b)
    /\ tries' = 0 /\ gets' = gets + 1
    /\ pc' = "dl_test"
    /\ UNCHANGED <<op, config, wait, exec, earlier, sleeps, puts, posts, uplv, outcome, ret,
                   nops, reqv, err, sent, putEntered>>

DownloadTest ==
    /\ pc = "dl_test"
    /\ IF DownloadContinue(resp, tries)
       THEN IF DownloadUnauthorized(resp)
            THEN Raise("auth", AuthError)
            ELSE pc' = "dl_sleep" /\ UNCHANGED <<outcome, ret, err>>
       ELSE IF DownloadExhausted(tries)
            THEN Raise("exhausted", ConnectionError(resp, content))
            ELSE /\ pc' = "done" /\ outcome' = "success"
                 /\ \E decode \in BOOLEAN :
                      ret' = [kind |-> IF decode THEN "text" ELSE "bytes", status |-> resp]
                 /\ UNCHANGED err
    /\ UNCHANGED <<op, config, wait, loopv, countv, uplv, nops, reqv, bodyv, sent, putEntered>>

DownloadSleep ==
    /\ pc = "dl_sleep"
    /\ sleeps' = Append(sleeps, wait)
    /\ pc' = "dl_retry"
    /\ UNCHANGED <<op, config, wait, exec, tries, resp, earlier, countv, uplv, outcome, ret,
                   nops, reqv, bodyv, err, sent, putEntered>>

DownloadRetry ==
    /\ pc = "dl_retry"
    /\ \E s \in Statuses, b \in Bodies : Respond(s, b)
    /\ earlier' = earlier \cup {resp}
    /\ tries' = tries + 1 /\ gets' = gets + 1
    /\ pc' = "dl_test"
    /\ UNCHANGED <<op, config, wait, exec, sleeps, puts, posts, uplv, outcome, ret,
                   nops, reqv, err, sent, putEntered>>

\* ------------------------------------------------------------ upload_file
\* mutant: 200 is taken for a staged upload too
UploadStaged_m(status) == status = 200 \/ status = 201
\* if resp.status_code == 201
UploadStaged(status) == status = 201

\* mutant: the whole path is used as the name
UploadFileName_m(filepath, name) == IF name = <<>> THEN filepath ELSE name
\* if file_name_once_uploaded == "": file_name_once_uploaded = os.path.split(filepath)[-1]
UploadFileName(filepath, name) == IF name = <<>> THEN basename(filepath) ELSE name

\* mutant: the token is left out of the attachment
UploadData_m(tok, fname, ctype, notes, status_change) ==
    LET keys == {"uploads", "notes"}
                \cup (IF status_change # <<>> THEN {"status_id"} ELSE {})
    IN  [issue |-> [k \in keys |->
            CASE k = "uploads"   -> << [token |-> "", filename |-> fname,
                                        content_type |-> ctype] >>
              [] k = "notes"     -> notes[1]
              [] k = "status_id" -> status_change[1]]]
\* data = {"issue": {"uploads": [{token, filename, content_type}], "notes": ...}}
\* and status_id when status_change is not None
UploadData(tok, fname, ctype, notes, status_change) ==
    LET keys == {"uploads", "notes"}
                \cup (IF status_change # <<>> THEN {"status_id"} ELSE {})
    IN  [issue |-> [k \in keys |->
            CASE k = "uploads"   -> << [token |-> tok, filename |-> fname,
                                        content_type |-> ctype] >>
              [] k = "notes"     -> notes[1]
              [] k = "status_id" -> status_change[1]]]

\* resp = requests.post(...); on 201 read the token, build data and go on to
\* the PUT, otherwise raise RedmineUploadError
UploadPost ==
    /\ pc = "upload_post"
    /\ posts' = posts + 1
    /\ \E s \in UploadStatuses, b \in Bodies :
         /\ postResp' = s /\ postContent' = b
         /\ last' = [status |-> s, body |-> b]
         /\ IF UploadStaged(s)
            THEN /\ token' = JsonLoads(b).upload.token
                 /\ data' = UploadData(token', UploadFileName(args.filepath, args.file_name),
                                       args.content_type, args.notes, args.status_change)
                 /\ target' = IssueUrl(args.issue_id)
                 /\ pc' = "put_first" /\ exec' = "put"
                 /\ UNCHANGED <<outcome, ret, err>>
            ELSE /\ Raise("upload_error", UploadError(s, b))
                 /\ UNCHANGED <<token, exec, data, target>>
    /\ UNCHANGED <<op, config, wait, tries, resp, earlier, sleeps, gets, puts, nops,
                   args, author, fetched, content, sent, putEntered>>

\* ------------------------------------------------------------------- next
Next ==
    \/ init
    \/ get_new_issues
    \/ get_issue_data
    \/ assign_to_author
    \/ update_issue
    \/ download_file
    \/ upload_file
    \/ Return
    \/ GetFirst
    \/ GetTest
    \/ GetSleep
    \/ GetRetry
    \/ PutFirst
    \/ PutTest
    \/ PutSleep
    \/ PutRetry
    \/ DownloadFirst
    \/ DownloadTest
    \/ DownloadSleep
    \/ DownloadRetry
    \/ UploadPost

Spec == Init /\ [][Next]_vars

\* a step of a retry loop or of the staging POST: the client is sequential
\* and blocking, a method that was called runs on until it returns or raises
Step ==
    \/ GetFirst \/ GetTest \/ GetSleep \/ GetRetry
    \/ PutFirst \/ PutTest \/ PutSleep \/ PutRetry
    \/ DownloadFirst \/ DownloadTest \/ DownloadSleep \/ DownloadRetry
    \/ UploadPost

FairSpec == Spec /\ WF_vars(Step)

TypeOK ==
    /\ tries \in 0..MaxRetries
    /\ resp \in Statuses \cup {0}
    /\ earlier \subseteq Statuses
    /\ wait \in WaitChoices \cup {0, PutWait}
    /\ nops \in 0..MaxOps

\* ================================================================ properties
\* every response of the retry loop in progress had status s
All(s) == calls >= 1 /\ resp = s /\ earlier \subseteq {s}
\* the responses of the retry loop in progress are k times 500, then 200
FailuresThenOk(k) ==
    /\ calls = k + 1 /\ resp = 200
    /\ earlier = (IF k = 0 THEN {} ELSE {500})
InGetOrPut == exec \in {"get", "put"}
AtTestOrDone == pc \in {"get_test", "put_test", "dl_test", "done"}

\* C1 (as stated): with a transport that always answers 500, the GET and the
\* PUT executor fail with the exhausted-retries error after exactly 10
\* transport calls.
C1_Original ==
    (InGetOrPut /\ All(500) /\ pc = "done") =>
        (outcome = "exhausted" /\ calls = 10)

\* C1 (amended): with a transport that always answers 500, the GET and the
\* PUT executor fail with the exhausted-retries error after exactly 11
\* transport calls: the first request and MaxRetries = 10 retries.
C1_AlwaysFailing ==
    (InGetOrPut /\ All(500)) =>
        /\ calls <= MaxRetries + 1
        /\ (pc = "done" => outcome = "exhausted" /\ calls = MaxRetries + 1)
        /\ (calls = MaxRetries + 1 => AtTestOrDone)

C1_Witness ==
    /\ exec = "get" /\ pc = "done" /\ outcome = "exhausted"
    /\ All(500) /\ gets = MaxRetries + 1

\* C2: in the GET executor a response of status 200 makes the operation
\* return the parsed body, and the exhausted-retries error is raised only
\* when no response of the invocation had status 200.
C2_Claim ==
    exec = "get" =>
        /\ (resp = 200 /\ pc = "done") =>
               (outcome = "success" /\ ret.kind = "json")
        /\ outcome = "exhausted" => (resp # 200 /\ 200 \notin earlier)

\* C3: for every k < 10, when the transport answers 500 to the first k calls
\* and 200 to the next, the GET and the PUT executor stop there and succeed:
\* the transport was called exactly k+1 times.
C3_FailuresThenSuccess ==
    \A k \in 0..(MaxRetries - 1) :
        (InGetOrPut /\ FailuresThenOk(k)) =>
            /\ AtTestOrDone
            /\ tries = k
            /\ (pc = "done" => outcome = "success")

C3_Witness ==
    /\ exec = "put" /\ FailuresThenOk(MaxRetries - 1)
    /\ pc = "done" /\ outcome = "success" /\ puts = MaxRetries

\* C4: in the GET and the PUT retry loop there is exactly one sleep between
\* two consecutive transport calls, and every sleep lasts the delay the
\* client was constructed with.
C4_Claim ==
    (InGetOrPut /\ calls >= 1) =>
        /\ Len(sleeps) = (IF pc \in {"get_retry", "put_retry"} THEN calls ELSE calls - 1)
        /\ \A i \in 1..Len(sleeps) : sleeps[i] = wait0

\* C5: in the GET executor a 401 answer to the first call fails the
\* operation with the authentication error: one transport call, no sleep.
C5_FirstCallUnauthorized ==
    (exec = "get" /\ gets = 1 /\ resp = 401) =>
        /\ pc \in {"get_test", "done"}
        /\ sleeps = <<>>
        /\ (pc = "done" => outcome = "auth")

C5_Witness ==
    /\ exec = "get" /\ pc = "done" /\ outcome = "auth"
    /\ gets = 1 /\ resp = 401 /\ sleeps = <<>>

\* C6: in the PUT executor a response of status 200 or 201 ends the loop and
\* the operation returns that status; the exhausted-retries error is raised
\* only when no response of the invocation had status 200 or 201.
C6_Claim ==
    exec = "put" =>
        /\ resp \in {200, 201} => pc \in {"put_test", "done"}
        /\ (resp \in {200, 201} /\ pc = "done") =>
               (outcome = "success" /\ ret = [kind |-> "status", status |-> resp])
        /\ outcome = "exhausted" =>
               (resp \notin {200, 201} /\ earlier \cap {200, 201} = {})

\* C7: upload_file posts the file once; when the answer is not 201 the
\* operation ends with the upload error and no PUT is issued; a PUT is
\* issued only after the POST of the same upload was answered with 201.
C7_StagingGatesAttach ==
    op = "upload_file" =>
        /\ posts <= 1
        /\ (posts = 1 /\ postResp # 201) =>
               (pc = "done" /\ outcome = "upload_error" /\ puts = 0)
        /\ (puts > 0 \/ exec = "put") => (posts = 1 /\ postResp = 201)
        /\ outcome = "upload_error" => postResp # 201

C7_Witness ==
    /\ op = "upload_file" /\ pc = "done" /\ outcome = "upload_error"
    /\ postResp = 422 /\ posts = 1 /\ puts = 0

\* C8 (as stated): download_file treats 401 like any other non-200 status:
\* it is slept on and retried, never reported as an authentication failure.
C8_Original ==
    exec = "download" =>
        /\ outcome # "auth"
        /\ (resp = 401 /\ pc = "done") => outcome = "exhausted"

\* C8 (amended): download_file has the retry loop of the GET executor, its
\* 401 check included: a 401 answer received while fewer than 10 retries
\* were made ends the operation with the authentication error and is never
\* slept on or retried; any other non-200 status is slept on and retried
\* until the retries are exhausted.
C8_DownloadUnauthorizedIsFatal ==
    exec = "download" =>
        /\ pc \in {"dl_sleep", "dl_retry"} => resp \notin {200, 401}
        /\ (resp = 401 /\ tries < MaxRetries /\ pc = "done") => outcome = "auth"
        /\ outcome = "auth" => (resp = 401 /\ tries < MaxRetries)
        /\ (resp \notin {200, 401} /\ pc = "done") =>
               (outcome = "exhausted" /\ tries = MaxRetries)

C8_Witness ==
    /\ exec = "download" /\ pc = "done" /\ outcome = "auth"
    /\ resp = 401 /\ gets = 2 /\ Len(sleeps) = 1

\* C9: the PUT executor has no check for 401: a 401 answer is slept on and
\* retried like any other failure, and a transport that always answers 401
\* ends in the exhausted-retries error once all retries are used.
C9_PutRetriesUnauthorized ==
    exec = "put" =>
        /\ outcome # "auth"
        /\ (resp = 401 /\ pc = "done") =>
               (outcome = "exhausted" /\ tries = MaxRetries)
        /\ (All(401) /\ pc = "done") =>
               (puts = MaxRetries + 1 /\ Len(sleeps) = MaxRetries)

C9_Witness ==
    /\ exec = "put" /\ pc = "done" /\ outcome = "exhausted"
    /\ All(401) /\ puts = MaxRetries + 1 /\ Len(sleeps) = MaxRetries

\* C10: after construction the base url and the api key never change, and
\* self.wait is changed by upload_file only.
C10_Claim ==
    [][pc # "new" =>
          /\ url' = url /\ api_key' = api_key
          /\ (wait' # wait => op = "upload_file")]_vars


\* ------------------------------------------------------------------------
\* decimal rendering of the ids that occur in the model
Rendered(n) ==
    CASE n = 7 -> "7" [] n = 12 -> "12" [] n = 42 -> "42" [] n = 105 -> "105"
\* the PUT body has the key k
HasKey(d, k) == k \in DOMAIN d.issue

\* C11: assign_to_author first fetches the issue with the GET executor, and
\* only when that returned it issues PUTs, all to the same issue and with
\* assigned_to_id the fetched issue.author.id as a string; when the fetch
\* fails no PUT is issued.
C11_FetchThenAssign ==
    op = "assign_to_author" =>
        /\ exec = "get" =>
               (puts = 0 /\ sent = {} /\ target.endpoint = "issues"
                /\ target.id = Rendered(args.issue_id))
        /\ (exec = "get" /\ pc = "done") => outcome \in {"auth", "exhausted"}
        /\ exec = "put" => (gets >= 1 /\ fetched # "" /\ last.status # 0)
        /\ \A r \in sent :
               /\ r.url = [endpoint |-> "issues", id |-> Rendered(args.issue_id)]
               /\ HasKey(r.json, "assigned_to_id")
               /\ r.json.issue.assigned_to_id =
                      Rendered(JsonLoads(fetched).issue.author.id)

C11_Witness ==
    /\ op = "assign_to_author" /\ pc = "done" /\ outcome = "success"
    /\ args.issue_id = 105 /\ fetched = "doc2" /\ gets = 2 /\ puts = 2
    /\ sent = {[url  |-> [endpoint |-> "issues", id |-> "105"],
                json |-> [issue |-> [assigned_to_id |-> "12", notes |-> "done",
                                     status_id |-> 4]]]}

\* C12: the PUT body of update_issue is {"issue": {...}} with the key notes
\* iff notes was supplied, status_id iff status_change was supplied and
\* assigned_to_id iff assign_to_id was supplied, and no other key; a call
\* with only notes="done" sends {"issue": {"notes": "done"}}.
C12_OnlySuppliedFields ==
    (op \in {"update_issue", "assign_to_author"} /\ exec = "put") =>
        /\ DOMAIN data = {"issue"}
        /\ DOMAIN data.issue \subseteq {"notes", "status_id", "assigned_to_id"}
        /\ HasKey(data, "notes") <=> args.notes # <<>>
        /\ HasKey(data, "status_id") <=> args.status_change # <<>>
        /\ HasKey(data, "assigned_to_id") <=> args.assign_to_id # <<>>
        /\ HasKey(data, "notes") => data.issue.notes = args.notes[1]
        /\ HasKey(data, "status_id") => data.issue.status_id = args.status_change[1]
        /\ (args.notes = <<"done">> /\ args.status_change = <<>> /\ args.assign_to_id = <<>>)
               => data = [issue |-> [notes |-> "done"]]
        /\ \A r \in sent : r.json = data

C12_Witness ==
    /\ op = "update_issue" /\ pc = "done" /\ outcome = "success"
    /\ args.notes = <<"done">> /\ args.status_change = <<>> /\ args.assign_to_id = <<>>
    /\ sent = {[url  |-> [endpoint |-> "issues", id |-> "42"],
                json |-> [issue |-> [notes |-> "done"]]]}

\* C13: when the staging POST of upload_file is answered 201 with token t,
\* the PUT body has one uploads entry: token t, the declared content type and
\* the remote file name, which is the supplied name or else what follows the
\* last "/" of the file path; status_id is present iff status_change was
\* supplied.
C13_AttachBody ==
    (op = "upload_file" /\ exec = "put") =>
        LET u == data.issue.uploads
            f == u[1].filename
            n == Len(args.filepath) - Len(f)
        IN  /\ postResp = 201
            /\ Len(u) = 1
            /\ u[1].token = JsonLoads(postContent).upload.token
            /\ postContent = "doc1" => u[1].token = "abc123"
            /\ u[1].content_type = args.content_type
            /\ args.file_name # <<>> => f = args.file_name
            /\ args.file_name = <<>> =>
                   /\ n >= 0 /\ f = SubSeq(args.filepath, n + 1, Len(args.filepath))
                   /\ \A i \in 1..Len(f) : f[i] # "/"
                   /\ n > 0 => args.filepath[n] = "/"
            /\ HasKey(data, "status_id") <=> args.status_change # <<>>
            /\ HasKey(data, "status_id") => data.issue.status_id = args.status_change[1]
            /\ \A r \in sent : r.json = data

C13_Witness ==
    /\ op = "upload_file" /\ puts >= 1 /\ postResp = 201 /\ postContent = "doc1"
    /\ args.filepath = <<"home", "/", "out", "/", "report.pdf">> /\ args.file_name = <<>>
    /\ data.issue.uploads = << [token |-> "abc123", filename |-> <<"report.pdf">>,
                                content_type |-> "application/pdf"] >>
    /\ data.issue.status_id = 4

\* the host of a netloc: what follows the last "@", up to the first ":"
Hostname(n) ==
    LET a == SubSeq(n, LastIndex(n, "@") + 1, Len(n))
        c == FirstIndex(a, ":")
    IN  IF c = 0 THEN a ELSE SubSeq(a, 1, c - 1)
Requests == gets + puts + posts

\* C14 (as stated): construction fails iff the base url lacks a scheme or
\* lacks a host, and no request is issued by a client whose base url has an
\* empty scheme or host.
C14_Original ==
    pc # "new" =>
        LET bad == \/ urlparse(url0).scheme = <<>>
                   \/ Hostname(urlparse(url0).netloc) = <<>>
        IN  /\ pc = "invalid" <=> bad
            /\ bad => Requests = 0

\* C14 (amended): construction fails with the invalid-url error iff the
\* scheme or the netloc of the parsed base url is empty (a netloc with a
\* port but no host passes), and succeeds otherwise; the failure comes before
\* any request, so no client whose url has an empty scheme or netloc ever
\* issues one.
C14_InvalidUrlRejected ==
    pc # "new" =>
        LET bad == urlparse(url0).scheme = <<>> \/ urlparse(url0).netloc = <<>>
        IN  /\ pc = "invalid" <=> bad
            /\ bad => (outcome = "invalid_url" /\ err.msg = "Invalid URL"
                       /\ Requests = 0 /\ nops = 0)
            /\ ~bad => url = url0

C14_Witness ==
    /\ pc = "invalid" /\ outcome = "invalid_url"
    /\ url0 = <<"http", ":", "/", "redmine.example">>


\* ------------------------------------------------------------------------
InLoop == pc \in {"get_first", "get_test", "get_sleep", "get_retry",
                  "put_first", "put_test", "put_sleep", "put_retry",
                  "dl_first", "dl_test", "dl_sleep", "dl_retry"}

RECURSIVE SumSeq(_)
SumSeq(q) == IF q = <<>> THEN 0 ELSE q[1] + SumSeq(Tail(q))

\* C15: every invocation of a retry loop (GET, PUT, download) ends, the
\* number of its retries being capped, and it ends in exactly one of
\* success (a returned value, no error), authentication failure or exhausted
\* retries (an error, no returned value).
C15_LoopTerminates ==
    /\ [](tries <= MaxRetries /\ calls <= MaxRetries + 1)
    /\ []((pc = "done" /\ exec # "none") =>
            /\ outcome \in {"success", "auth", "exhausted"}
            /\ outcome = "success" =>
                   (err = NoError /\ ret.kind \in {"json", "status", "text", "bytes"})
            /\ outcome = "auth" => (err = AuthError /\ ret = NoReturn)
            /\ outcome = "exhausted" =>
                   (err.msg = "Could not connect to redmine servers" /\ ret = NoReturn))
    /\ (InLoop ~> pc = "done")

C15_Witness ==
    /\ exec = "download" /\ pc = "done" /\ outcome = "exhausted"
    /\ tries = MaxRetries /\ gets = MaxRetries + 1

C17_Claim ==
    exec = "get" =>
        /\ resp = 401 => pc \in {"get_test", "done"}
        /\ (resp = 401 /\ pc = "done") => outcome = "auth"
        /\ outcome = "exhausted" => resp # 401

\* C18: the exhausted-retries error of a retry loop carries the status and
\* the body of the last response the transport gave in that invocation.
C18_ErrorCarriesLastResponse ==
    outcome = "exhausted" =>
        /\ err = [msg    |-> "Could not connect to redmine servers",
                  status |-> last.status, body |-> last.body]
        /\ calls = MaxRetries + 1

C18_Witness ==
    /\ exec = "put" /\ pc = "done" /\ outcome = "exhausted"
    /\ earlier = {500} /\ last = [status |-> 401, body |-> "doc2"]
    /\ err.status = 401 /\ err.body = "doc2"

C20_StageOnceAttachSame ==
    (op = "upload_file" /\ postResp = 201) =>
        /\ posts = 1
        /\ token = JsonLoads(postContent).upload.token
        /\ postContent = "doc2" => token = "def456"
        /\ puts >= 1 => Cardinality(sent) = 1
        /\ \A r \in sent :
               /\ r.url = [endpoint |-> "issues", id |-> Rendered(args.issue_id)]
               /\ r.json = data
               /\ r.json.issue.uploads[1].token = token
        /\ pc = "done" =>
               /\ outcome \in {"success", "exhausted"}
               /\ resp \notin {200, 201} =>
                      (outcome = "exhausted" /\ puts = MaxRetries + 1
                       /\ err.msg = "Could not connect to redmine servers")

C20_Witness ==
    /\ op = "upload_file" /\ pc = "done" /\ outcome = "exhausted"
    /\ posts = 1 /\ puts = MaxRetries + 1 /\ Cardinality(sent) = 1
    /\ postContent = "doc2" /\ token = "def456"

=============================================================================
